---- MODULE Spec2Model ----
(***************************************************************************)
(* Observer mode of the zkSync server (core/bin/server/src/observer_mode.rs) *)
(* as a state machine: `run` (init, then the polling loop) interleaved with *)
(* the storage backend, where blocks are committed and verified, and with   *)
(* the owner of the stop channel's sender.                                  *)
(***************************************************************************)
EXTENDS Integers, Sequences, FiniteSets, TLC

\* ------------------------------------------------------------------ bounds
MaxBlock == 2       \* blocks the ledger commits during a run
MaxStops == 1       \* stop messages the sender may queue
MaxCount == 2       \* ceiling of the ghost counters of update passes

\* ------------------------------------------------------------- data model
AccountIds == 1 .. 2

EmptyLeaf == [balance |-> 0, nonce |-> 0, pub_key_hash |-> 0]

\* CircuitAccountTree::new: every leaf is the default account.
NewTree == [a \in AccountIds |-> EmptyLeaf]

\* The accounts the ledger starts from (block 0).
Genesis == [a \in AccountIds |->
              IF a = 1 THEN [balance |-> 1, nonce |-> 1, pub_key_hash |-> 1]
                       ELSE EmptyLeaf]

None == << >>
Some(x) == << x >>

Op(kind, from, to, amount, wa) ==
  [kind |-> kind, from |-> from, to |-> to, amount |-> amount,
   withdraw_amount |-> wa]

Deposit(to, amount)          == Op("Deposit", to, to, amount, None)
Transfer(from, to, amount)   == Op("Transfer", from, to, amount, None)
TransferToNew(from, to, amt) == Op("TransferToNew", from, to, amt, None)
Withdraw(from, amount)       == Op("Withdraw", from, from, amount, None)
Close(a)                     == Op("Close", a, a, 0, None)
FullExit(a, wa)              == Op("FullExit", a, a, 0, wa)
ChangePubKeyOffchain(a, pk)  == Op("ChangePubKeyOffchain", a, a, pk, None)
ForcedExit(a, amount)        == Op("ForcedExit", a, a, amount, None)
Noop                         == Op("Noop", 1, 1, 0, None)

\* The operation lists a block may carry.
OpLists ==
  { << Deposit(2, 2), FullExit(1, None), Transfer(2, 1, 1),
       ChangePubKeyOffchain(1, 2), Noop >>,
    << TransferToNew(1, 2, 1), Withdraw(2, 1), FullExit(1, Some(1)),
       Deposit(1, 2), ForcedExit(1, 1), Close(2) >> }

\* ------------------------------------------------- per-kind tree mutators
Credit(tree, a, amount) ==
  [tree EXCEPT ![a].balance = @ + amount]

Debit(tree, a, amount) ==
  [tree EXCEPT ![a].balance = @ - amount]

DepositWitness_apply_tx(tree, op) == Credit(tree, op.to, op.amount)

TransferWitness_apply_tx(tree, op) ==
  Credit(Debit(tree, op.from, op.amount), op.to, op.amount)

TransferToNewWitness_apply_tx(tree, op) ==
  Credit(Debit(tree, op.from, op.amount), op.to, op.amount)

WithdrawWitness_apply_tx(tree, op) == Debit(tree, op.from, op.amount)

CloseAccountWitness_apply_tx(tree, op) == [tree EXCEPT ![op.from] = EmptyLeaf]

FullExitWitness_apply_tx(tree, op, success) ==
  IF success THEN [tree EXCEPT ![op.from] = EmptyLeaf] ELSE tree

ChangePubkeyOffChainWitness_apply_tx(tree, op) ==
  [tree EXCEPT ![op.from].pub_key_hash = op.amount]

ForcedExitWitness_apply_tx(tree, op) == Debit(tree, op.from, op.amount)

\* ------------------------------------------------------ ObservedState::apply
\* A variant of IsSome that takes every full exit for a successful one.
IsSomeAlways(o) == TRUE

\* full_exit.withdraw_amount.is_some()
IsSome(o) == Len(o) > 0

\* A variant of applyOp whose Deposit arm does nothing.
applyOpNoDeposit(tree, op) ==
  CASE op.kind \in {"Transfer", "TransferToNew"} ->
         TransferWitness_apply_tx(tree, op)
    [] op.kind \in {"Withdraw", "ForcedExit"} -> WithdrawWitness_apply_tx(tree, op)
    [] op.kind = "Close"                -> CloseAccountWitness_apply_tx(tree, op)
    [] op.kind = "FullExit"             ->
         FullExitWitness_apply_tx(tree, op, IsSome(op.withdraw_amount))
    [] op.kind = "ChangePubKeyOffchain" -> ChangePubkeyOffChainWitness_apply_tx(tree, op)
    [] OTHER                            -> tree

applyOp(tree, op) ==
  CASE op.kind = "Deposit"              -> DepositWitness_apply_tx(tree, op)
    [] op.kind = "Transfer"             -> TransferWitness_apply_tx(tree, op)
    [] op.kind = "TransferToNew"        -> TransferToNewWitness_apply_tx(tree, op)
    [] op.kind = "Withdraw"             -> WithdrawWitness_apply_tx(tree, op)
    [] op.kind = "Close"                -> CloseAccountWitness_apply_tx(tree, op)
    [] op.kind = "FullExit"             ->
         FullExitWitness_apply_tx(tree, op, IsSome(op.withdraw_amount))
    [] op.kind = "ChangePubKeyOffchain" -> ChangePubkeyOffChainWitness_apply_tx(tree, op)
    [] op.kind = "ForcedExit"           -> ForcedExitWitness_apply_tx(tree, op)
    [] op.kind = "Noop"                 -> tree

RECURSIVE apply(_, _)
apply(tree, ops) ==
  IF ops = << >> THEN tree
  ELSE apply(applyOp(tree, Head(ops)), Tail(ops))

\* ------------------------------------------------------------ the ledger
\* What the ledger executes for one operation: the same per-kind mutation
\* the replayer must reproduce, a full exit succeeding exactly when funds
\* were withdrawn.
LedgerOp(state, op) ==
  CASE op.kind = "Deposit"              -> Credit(state, op.to, op.amount)
    [] op.kind \in {"Transfer", "TransferToNew"} ->
         Credit(Debit(state, op.from, op.amount), op.to, op.amount)
    [] op.kind \in {"Withdraw", "ForcedExit"} -> Debit(state, op.from, op.amount)
    [] op.kind = "Close"                -> [state EXCEPT ![op.from] = EmptyLeaf]
    [] op.kind = "FullExit"             ->
         IF op.withdraw_amount # None
         THEN [state EXCEPT ![op.from] = EmptyLeaf] ELSE state
    [] op.kind = "ChangePubKeyOffchain" ->
         [state EXCEPT ![op.from].pub_key_hash = op.amount]
    [] OTHER                            -> state

\* Whether the ledger accepts an operation (debits never overdraw: storage
\* validated the operation before committing it to a block).
LedgerOpValid(state, op) ==
  IF op.kind \in {"Transfer", "TransferToNew", "Withdraw", "ForcedExit"}
  THEN state[op.from].balance >= op.amount
  ELSE TRUE

RECURSIVE LedgerBlockValid(_, _)
LedgerBlockValid(state, ops) ==
  IF ops = << >> THEN TRUE
  ELSE /\ LedgerOpValid(state, Head(ops))
       /\ LedgerBlockValid(LedgerOp(state, Head(ops)), Tail(ops))

\* One block executed by the ledger, operation 1 first.
LedgerBlock(state, ops) ==
  LET RECURSIVE upto(_)
      upto(i) == IF i = 0 THEN state ELSE LedgerOp(upto(i - 1), ops[i])
  IN  upto(Len(ops))

\* Account state of the ledger after block n of the chain bs.
RECURSIVE LedgerState(_, _)
LedgerState(bs, n) ==
  IF n = 0 THEN Genesis
  ELSE LedgerBlock(LedgerState(bs, n - 1), bs[n])

\* ------------------------------------------------------------------ state
VARIABLES
  blocks,              \* storage: operation lists of the committed blocks 1..Len
  verified,            \* storage: number of the last verified block
  chan,                \* stop channel: messages sent and not yet received
  sender,              \* stop channel: "alive" or "dropped"
  pc,                  \* position of run
  circuit_acc_tree,    \* ObservedState.circuit_acc_tree
  circuit_tree_block,  \* ObservedState.circuit_tree_block
  state_keeper_init,   \* ObservedState.state_keeper_init
  conns,               \* storage connections run holds
  loaded,              \* init_circuit_tree: (block_number, accounts)
  block_number,        \* update_circuit_account_tree: block_number
  bn,                  \* update_circuit_account_tree: loop variable
  ops,                 \* update_circuit_account_tree: ops of block bn + 1
  exit,                \* run: exit
  snap,                \* history: what load_verified_state returned
  replayed,            \* history: block numbers replayed since init, in order
  fetched,             \* history: block numbers fetched in the current pass
  n_updates,           \* history: update passes started (up to MaxCount)
  n_after_obs,         \* history: update passes started since stop was observed
  stop_sent,           \* history: a stop message was sent
  n_after_sent,        \* history: update passes started since the first stop
                       \* message was sent (up to MaxCount + 1)
  recv_after_drop,     \* history: a stop message was received from a channel
                       \* whose sender had been dropped
  cause,               \* history: why run aborted ("none" while it has not)
  failed_at            \* history: position of run at the failure ("" if none)

storage_vars == << blocks, verified >>
chan_vars    == << chan, sender, stop_sent >>
state_vars   == << circuit_acc_tree, circuit_tree_block, state_keeper_init >>
local_vars   == << loaded, block_number, bn, ops >>
stop_hist    == << n_after_sent, recv_after_drop >>
hist_vars    == << snap, replayed, fetched, n_updates, n_after_obs, stop_hist >>
fail_vars    == << cause, failed_at >>
vars == << blocks, verified, chan, sender, pc, circuit_acc_tree,
           circuit_tree_block, state_keeper_init, conns, loaded, block_number,
           bn, ops, exit, snap, replayed, fetched, n_updates, n_after_obs,
           n_after_sent, recv_after_drop, stop_sent, cause, failed_at >>

\* ZkSyncStateInitParams::new
NewStateKeeperInit == [last_block_number |-> 0]

NoSnap == [block |-> 0, tree |-> NewTree]

\* init_circuit_tree before load_verified_state has returned.
NoLoad == [block_number |-> 0, accounts |-> [a \in {} |-> EmptyLeaf]]

\* ObservedState::new, before run calls init; the ledger is at its genesis.
Init ==
  /\ blocks = << >>
  /\ verified = 0
  /\ chan = 0
  /\ sender = "alive"
  /\ pc = "ict_access"
  /\ circuit_acc_tree = NewTree
  /\ circuit_tree_block = 0
  /\ state_keeper_init = NewStateKeeperInit
  /\ conns = 0
  /\ loaded = NoLoad
  /\ block_number = 0
  /\ bn = 0
  /\ ops = << >>
  /\ exit = FALSE
  /\ snap = NoSnap
  /\ replayed = << >>
  /\ fetched = << >>
  /\ n_updates = 0
  /\ n_after_obs = 0
  /\ n_after_sent = 0
  /\ recv_after_drop = FALSE
  /\ stop_sent = FALSE
  /\ cause = "none"
  /\ failed_at = ""

Bump(n) == IF n < MaxCount THEN n + 1 ELSE n

BumpSent(n) == IF n < MaxCount + 1 THEN n + 1 ELSE n

\* ------------------------------------------------------------ environment
\* The system is followed for as long as run is running.
Running == pc \notin {"returned", "panicked"}

\* The ledger commits one more block, of operations l it accepts.
CommitList(l) ==
  /\ Running
  /\ Len(blocks) < MaxBlock
  /\ LedgerBlockValid(LedgerState(blocks, Len(blocks)), l)
  /\ blocks' = Append(blocks, l)
  /\ UNCHANGED << verified, chan_vars, pc, state_vars, conns, local_vars, exit,
                  hist_vars, fail_vars >>

CommitBlock == \E l \in OpLists : CommitList(l)

\* The ledger commits one more block, always of the same operations.
PlainOps == << Deposit(2, 2), FullExit(1, None), Transfer(2, 1, 1),
               ChangePubKeyOffchain(1, 2), Noop >>

CommitPlainBlock == CommitList(PlainOps)

\* The next committed block is verified.
VerifyBlock ==
  /\ Running
  /\ verified < Len(blocks)
  /\ verified' = verified + 1
  /\ UNCHANGED << blocks, chan_vars, pc, state_vars, conns, local_vars, exit,
                  hist_vars, fail_vars >>

\* The owner of the sender sends a stop message.
SendStop ==
  /\ Running
  /\ sender = "alive"
  /\ chan < MaxStops
  /\ chan' = chan + 1
  /\ stop_sent' = TRUE
  /\ UNCHANGED << storage_vars, sender, pc, state_vars, conns, local_vars, exit,
                  hist_vars, fail_vars >>

\* The owner of the sender drops it.
DropSender ==
  /\ Running
  /\ sender = "alive"
  /\ sender' = "dropped"
  /\ UNCHANGED << storage_vars, chan, stop_sent, pc, state_vars, conns,
                  local_vars, exit, hist_vars, fail_vars >>

\* ---------------------------------------------------------------- storage
\* state_schema().load_verified_state(): the block storage considers
\* verified and the accounts of the ledger as of that block.
load_verified_state ==
  LET st == LedgerState(blocks, verified)
      ids == {a \in AccountIds : st[a] # EmptyLeaf}
  IN  [block_number |-> verified, accounts |-> [a \in ids |-> st[a]]]

\* block_schema().get_last_verified_block()
get_last_verified_block == verified

\* block_schema().get_block_operations(n)
get_block_operations(n) ==
  IF n \in DOMAIN blocks THEN blocks[n] ELSE << >>

\* ZkSyncStateInitParams::restore_from_db: the latest committed state.
restore_from_db == [last_block_number |-> Len(blocks)]

\* ZkSyncStateInitParams::load_state_diff: the diff from the checkpoint's
\* block to the latest committed block, if there is one.
load_state_diff(params) ==
  IF Len(blocks) > params.last_block_number
  THEN [params EXCEPT !.last_block_number = Len(blocks)]
  ELSE params

\* --------------------------------------------------------- ObservedState
\* CircuitAccount::from(account)
CircuitAccountFrom(account) ==
  [balance |-> account.balance, nonce |-> account.nonce,
   pub_key_hash |-> account.pub_key_hash]

\* The loop of init_circuit_tree: circuit_acc_tree.insert for every account.
RECURSIVE InsertAccounts(_, _, _)
InsertAccounts(tree, accounts, ids) ==
  IF ids = {} THEN tree
  ELSE LET account_id == CHOOSE a \in ids : \A b \in ids : a <= b
       IN  InsertAccounts(
             [tree EXCEPT ![account_id] = CircuitAccountFrom(accounts[account_id])],
             accounts, ids \ {account_id})

\* A variant of InitTreeBlock that records the block after the loaded one.
InitTreeBlockNext(ld) == ld.block_number + 1

\* A variant of InitTreeBlock that leaves the block at its initial 0.
InitTreeBlockZero(ld) == 0

\* init_circuit_tree: the block recorded after the inserts.
InitTreeBlock(ld) == ld.block_number

\* A variant of LoopStart that begins one block too late.
LoopStartSkip(tree_block) == tree_block + 1

\* update_circuit_account_tree: the first value of bn.
LoopStart(tree_block) == tree_block

\* A variant of LoopContinues that leaves the loop one block early.
LoopContinuesShort(b, last) == b + 1 < last

\* update_circuit_account_tree: the loop continues while bn < block_number.
LoopContinues(b, last) == b < last

\* A variant of BlockToFetch that fetches block bn instead of bn + 1.
BlockToFetchSame(b) == b

\* update_circuit_account_tree: the block whose operations are fetched.
BlockToFetch(b) == b + 1

\* Variants of UpdatedTreeBlock: the last value of bn, and one block too far.
UpdatedTreeBlockLastBn(last) == IF last > 0 THEN last - 1 ELSE 0

UpdatedTreeBlockNext(last) == last + 1

\* update_circuit_account_tree: the block recorded after the loop.
UpdatedTreeBlock(last) == last

\* A variant of try_recv that reports a dropped sender before it hands out
\* the messages still in the channel.
try_recvDisconnectFirst ==
  IF sender = "dropped" THEN "Disconnected"
  ELSE IF chan > 0 THEN "Ok" ELSE "Empty"

\* run: stop.try_recv()
try_recv ==
  IF chan > 0 THEN "Ok"
  ELSE IF sender = "dropped" THEN "Disconnected" ELSE "Empty"

\* A variant of StopCheck that receives the stop message and ignores it.
StopCheckIgnoresOk(r) ==
  CASE r \in {"Empty", "Ok"} -> "false"
    [] OTHER                 -> "panic"

\* A variant of StopCheck that takes a disconnected channel for a stop.
StopCheckLenient(r) ==
  CASE r = "Empty" -> "false"
    [] OTHER       -> "true"

\* run: the match on try_recv's result; "panic" or the value of exit.
StopCheck(r) ==
  CASE r = "Empty" -> "false"
    [] r = "Ok"    -> "true"
    [] OTHER       -> "panic"

\* Variants of Breaks: leave after every tick, and never leave.
BreaksAlways(e) == TRUE

BreaksNever(e) == FALSE

\* run: if exit { break }
Breaks(e) == e

\* A variant of OnStorageError that tries the failed call again.
OnStorageErrorRetry(at) == at

\* run: .expect(..) on the result of init and update; where run continues
\* after a storage error raised at position at.
OnStorageError(at) == "panicked"

\* A variant of DropStorage that keeps the connection checked out.
DropStorageLeak(c) == c

\* A storage handle goes out of scope: its connection returns to the pool.
DropStorage(c) == c - 1

\* -------------------------------------------------------------------- run
\* A storage call fails: the error propagates through `?`, every local
\* connection is dropped on the way, and expect panics.
StorageFails ==
  /\ pc' = OnStorageError(pc)
  /\ cause' = "storage"
  /\ failed_at' = pc
  /\ conns' = 0
  /\ UNCHANGED << storage_vars, chan_vars, state_vars, local_vars, exit,
                  hist_vars >>

\* connection_pool.access_storage() succeeds.
Access(next) ==
  /\ pc' = next
  /\ conns' = conns + 1
  /\ UNCHANGED << storage_vars, chan_vars, state_vars, local_vars, exit,
                  hist_vars, fail_vars >>

IctAccess ==
  /\ pc = "ict_access"
  /\ \/ Access("ict_load")
     \/ StorageFails

IctLoad ==
  /\ pc = "ict_load"
  /\ \/ /\ loaded' = load_verified_state
        /\ snap' = [block |-> verified, tree |-> LedgerState(blocks, verified)]
        /\ pc' = "ict_insert"
        /\ UNCHANGED << storage_vars, chan_vars, state_vars, conns,
                        block_number, bn, ops, exit, replayed, fetched,
                        n_updates, n_after_obs, stop_hist, fail_vars >>
     \/ StorageFails

IctInsert ==
  /\ pc = "ict_insert"
  /\ circuit_acc_tree' =
       InsertAccounts(circuit_acc_tree, loaded.accounts, DOMAIN loaded.accounts)
  /\ circuit_tree_block' = InitTreeBlock(loaded)
  /\ loaded' = NoLoad
  /\ conns' = DropStorage(conns)
  /\ pc' = "init_access"
  /\ UNCHANGED << storage_vars, chan_vars, state_keeper_init, block_number, bn,
                  ops, exit, hist_vars, fail_vars >>

InitAccess ==
  /\ pc = "init_access"
  /\ \/ Access("init_restore")
     \/ StorageFails

InitRestore ==
  /\ pc = "init_restore"
  /\ \/ /\ state_keeper_init' = restore_from_db
        /\ conns' = DropStorage(conns)
        /\ pc' = "check"
        /\ UNCHANGED << storage_vars, chan_vars, circuit_acc_tree,
                        circuit_tree_block, local_vars, exit, hist_vars,
                        fail_vars >>
     \/ StorageFails

StopChecked ==
  /\ pc = "check"
  /\ LET r == StopCheck(try_recv) IN
       /\ chan' = IF try_recv = "Ok" THEN chan - 1 ELSE chan
       /\ IF r = "panic"
          THEN /\ pc' = "panicked"
               /\ cause' = "channel"
               /\ failed_at' = pc
               /\ UNCHANGED << exit, n_after_obs, recv_after_drop >>
          ELSE /\ pc' = "sleep"
               /\ exit' = (r = "true")
               /\ n_after_obs' = 0
               /\ recv_after_drop' =
                    (recv_after_drop \/ (try_recv = "Ok" /\ sender = "dropped"))
               /\ UNCHANGED fail_vars
  /\ UNCHANGED << storage_vars, sender, stop_sent, state_vars, conns,
                  local_vars, snap, replayed, fetched, n_updates,
                  n_after_sent >>

\* thread::sleep(interval) returns and update is called.
Sleep ==
  /\ pc = "sleep"
  /\ pc' = "uct_access"
  /\ n_updates' = Bump(n_updates)
  /\ n_after_obs' = IF exit THEN Bump(n_after_obs) ELSE n_after_obs
  /\ n_after_sent' = IF stop_sent THEN BumpSent(n_after_sent) ELSE n_after_sent
  /\ fetched' = << >>
  /\ UNCHANGED << storage_vars, chan_vars, state_vars, conns, local_vars, exit,
                  snap, replayed, recv_after_drop, fail_vars >>

UctAccess ==
  /\ pc = "uct_access"
  /\ \/ Access("uct_last")
     \/ StorageFails

UctLast ==
  /\ pc = "uct_last"
  /\ \/ /\ block_number' = get_last_verified_block
        /\ bn' = LoopStart(circuit_tree_block)
        /\ conns' = DropStorage(conns)
        /\ pc' = "uct_loop"
        /\ UNCHANGED << storage_vars, chan_vars, state_vars, loaded, ops, exit,
                        hist_vars, fail_vars >>
     \/ StorageFails

UctLoop ==
  /\ pc = "uct_loop"
  /\ IF LoopContinues(bn, block_number)
     THEN /\ pc' = "ops_access"
          /\ UNCHANGED circuit_tree_block
     ELSE /\ circuit_tree_block' = UpdatedTreeBlock(block_number)
          /\ pc' = "upd_access"
  /\ UNCHANGED << storage_vars, chan_vars, circuit_acc_tree, state_keeper_init,
                  conns, local_vars, exit, hist_vars, fail_vars >>

OpsAccess ==
  /\ pc = "ops_access"
  /\ \/ Access("ops_get")
     \/ StorageFails

OpsGet ==
  /\ pc = "ops_get"
  /\ \/ /\ ops' = get_block_operations(BlockToFetch(bn))
        /\ fetched' = Append(fetched, BlockToFetch(bn))
        /\ conns' = DropStorage(conns)
        /\ pc' = "ops_apply"
        /\ UNCHANGED << storage_vars, chan_vars, state_vars, loaded,
                        block_number, bn, exit, snap, replayed, n_updates,
                        n_after_obs, stop_hist, fail_vars >>
     \/ StorageFails

OpsApply ==
  /\ pc = "ops_apply"
  /\ circuit_acc_tree' = apply(circuit_acc_tree, ops)
  /\ replayed' = Append(replayed, fetched[Len(fetched)])
  /\ ops' = << >>
  /\ bn' = bn + 1
  /\ pc' = "uct_loop"
  /\ UNCHANGED << storage_vars, chan_vars, circuit_tree_block,
                  state_keeper_init, conns, loaded, block_number, exit, snap,
                  fetched, n_updates, n_after_obs, stop_hist, fail_vars >>

UpdAccess ==
  /\ pc = "upd_access"
  /\ \/ Access("upd_diff")
     \/ StorageFails

\* A variant of UpdDiff that keeps one block mark for tree and checkpoint.
UpdDiffConflated ==
  /\ pc = "upd_diff"
  /\ \/ /\ state_keeper_init' = load_state_diff(state_keeper_init)
        /\ circuit_tree_block' = state_keeper_init'.last_block_number
        /\ conns' = DropStorage(conns)
        /\ pc' = "tick_end"
        /\ UNCHANGED << storage_vars, chan_vars, circuit_acc_tree, local_vars,
                        exit, hist_vars, fail_vars >>
     \/ StorageFails

UpdDiff ==
  /\ pc = "upd_diff"
  /\ \/ /\ state_keeper_init' = load_state_diff(state_keeper_init)
        /\ conns' = DropStorage(conns)
        /\ pc' = "tick_end"
        /\ UNCHANGED << storage_vars, chan_vars, circuit_acc_tree,
                        circuit_tree_block, local_vars, exit, hist_vars,
                        fail_vars >>
     \/ StorageFails

TickEnd ==
  /\ pc = "tick_end"
  /\ pc' = IF Breaks(exit) THEN "returned" ELSE "check"
  /\ UNCHANGED << storage_vars, chan_vars, state_vars, conns, local_vars, exit,
                  hist_vars, fail_vars >>

RunStep ==
  \/ IctAccess \/ IctLoad \/ IctInsert \/ InitAccess \/ InitRestore
  \/ StopChecked \/ Sleep
  \/ UctAccess \/ UctLast \/ UctLoop \/ OpsAccess \/ OpsGet \/ OpsApply
  \/ UpdAccess \/ UpdDiff \/ TickEnd

Environment == CommitBlock \/ VerifyBlock \/ SendStop \/ DropSender

Next == RunStep \/ Environment

Spec == Init /\ [][Next]_vars

\* run is a sequential program: every step it can take, it takes. Which
\* operations a block carries has no influence on the steps run takes, so
\* the ledger of this specification commits blocks of one content.
LiveNext == RunStep \/ CommitPlainBlock \/ VerifyBlock \/ SendStop \/ DropSender

LiveSpec == Init /\ [][LiveNext]_vars /\ WF_vars(RunStep)

\* ----------------------------------------------------- the gap scenario
\* A ledger of twelve committed blocks: account 1 holds 100 after block 1
\* and until block 10, block 11 is a transfer of 30 from account 1 to
\* account 2 and block 12 a deposit of 50 to account 2.
ScenarioBlocks ==
  [n \in 1 .. 12 |->
     CASE n = 1  -> << Deposit(1, 99) >>
       [] n = 11 -> << Transfer(1, 2, 30) >>
       [] n = 12 -> << Deposit(2, 50) >>
       [] OTHER  -> << Noop >>]

\* run starts when block 10 is the last verified block of that ledger.
ScenarioInit ==
  /\ blocks = ScenarioBlocks
  /\ verified = 10
  /\ chan = 0
  /\ sender = "alive"
  /\ pc = "ict_access"
  /\ circuit_acc_tree = NewTree
  /\ circuit_tree_block = 0
  /\ state_keeper_init = NewStateKeeperInit
  /\ conns = 0
  /\ loaded = NoLoad
  /\ block_number = 0
  /\ bn = 0
  /\ ops = << >>
  /\ exit = FALSE
  /\ snap = NoSnap
  /\ replayed = << >>
  /\ fetched = << >>
  /\ n_updates = 0
  /\ n_after_obs = 0
  /\ n_after_sent = 0
  /\ recv_after_drop = FALSE
  /\ stop_sent = FALSE
  /\ cause = "none"
  /\ failed_at = ""

\* Blocks 11 and 12 are verified while run polls.
ScenarioNext == RunStep \/ VerifyBlock \/ SendStop \/ DropSender

ScenarioSpec == ScenarioInit /\ [][ScenarioNext]_vars

\* ============================================================ properties
\* The block numbers a + 1, a + 2, ..., b in increasing order.
Range(a, b) == [i \in 1 .. (b - a) |-> a + i]

\* One whole update pass over the tree, from block b0 to block b1: the loop
\* of update_circuit_account_tree run to its end in one go.
RECURSIVE UpdateLoop(_, _, _)
UpdateLoop(tree, b, last) ==
  IF b < last
  THEN UpdateLoop(apply(tree, get_block_operations(b + 1)), b + 1, last)
  ELSE tree

SinglePass(tree, b0, b1) == UpdateLoop(tree, b0, b1)

InLoop == pc \in {"uct_loop", "ops_access", "ops_get", "ops_apply"}

\* Between passes, and inside a pass outside the replay loop.
Settled == pc \in {"check", "sleep", "uct_access", "uct_last", "upd_access",
                   "upd_diff", "tick_end", "returned"}

\* init and an update pass have just completed, or run has returned.
PassEnded == pc \in {"check", "sleep", "tick_end", "returned"}

\* C1: once the stop check of a tick has found the stop message (exit is
\* true), one update pass follows and then run returns: the tick that ends
\* with exit set returns, no second pass starts after the observation, and
\* run returns only from a tick whose check observed the stop message, after
\* exactly one pass since that check.
C1_OneMoreUpdateThenReturn ==
  [][ /\ (pc = "tick_end" /\ exit /\ pc' # pc) => pc' = "returned"
      /\ (pc' = "returned") => (exit' /\ n_after_obs' = 1)
      /\ exit' => n_after_obs' <= 1
      /\ (pc' = "returned" /\ pc # "returned") => pc = "tick_end" ]_vars

C1_Witness ==
  pc = "returned" /\ exit /\ n_after_obs = 1 /\ n_updates = 2

\* C2: when run returns, circuit_tree_block is the last-verified block number
\* storage reported to the final update pass, every block from the initial
\* snapshot's up to that number has been replayed, none missing, and the tree
\* is the snapshot with those blocks' operations applied.
C2_NothingLostOnStop ==
  pc = "returned" =>
    /\ circuit_tree_block = block_number
    /\ replayed = Range(snap.block, circuit_tree_block)
    /\ circuit_acc_tree = SinglePass(snap.tree, snap.block, circuit_tree_block)
    /\ circuit_acc_tree = LedgerState(blocks, circuit_tree_block)

\* run has returned; its final pass replayed a block verified since the
\* previous pass, and another block was verified after the final pass asked.
C2_Witness ==
  /\ pc = "returned"
  /\ n_updates = 2
  /\ fetched # << >>
  /\ verified > circuit_tree_block

\* C3: no step of run lowers circuit_tree_block or the checkpoint's
\* last_block_number.
C3_HighWaterMarksMonotone ==
  [][ /\ circuit_tree_block' >= circuit_tree_block
      /\ state_keeper_init'.last_block_number >=
           state_keeper_init.last_block_number ]_vars

\* A second pass has completed that found no new verified block.
C3_Witness ==
  /\ pc = "tick_end"
  /\ n_updates = 2
  /\ fetched = << >>
  /\ circuit_tree_block > 0
  /\ state_keeper_init.last_block_number > circuit_tree_block

\* C4: in a pass that starts at circuit_tree_block = B0 with storage
\* reporting B1, the blocks fetched are B0 + 1, ..., B1 in this order, each
\* block's operations are applied in their stored order (as the ledger
\* executed them), and the pass ends with circuit_tree_block = B1.
C4_PassReplaysGapInOrder ==
  [][ /\ InLoop' =>
           fetched' = Range(circuit_tree_block',
                            IF pc' = "ops_apply" THEN bn' + 1 ELSE bn')
      /\ (pc = "ops_apply" /\ pc' # pc) =>
           /\ ops = get_block_operations(bn + 1)
           /\ circuit_acc_tree' = LedgerBlock(circuit_acc_tree, ops)
      /\ (pc = "uct_loop" /\ pc' = "upd_access") =>
           /\ fetched = Range(circuit_tree_block, block_number)
           /\ circuit_tree_block' = block_number ]_vars

\* A pass has replayed a gap of at least two blocks.
C4_Witness ==
  pc = "upd_access" /\ Len(fetched) >= 2 /\ circuit_tree_block = block_number

\* C5: whenever run is not inside the replay loop, the tree built by the
\* passes so far equals the tree a single pass from the initial snapshot to
\* circuit_tree_block gives.
C5_ChunkSizeIndependent ==
  Settled =>
    circuit_acc_tree = SinglePass(snap.tree, snap.block, circuit_tree_block)

\* The blocks replayed so far were replayed in at least two different passes.
C5_Witness ==
  /\ pc = "tick_end"
  /\ fetched # << >>
  /\ Len(replayed) > Len(fetched)
  /\ circuit_acc_tree # snap.tree

InitPositions == {"ict_access", "ict_load", "ict_insert", "init_access",
                  "init_restore"}

\* C6: after a storage failure run is aborted and stays so: it takes no
\* further step (no retry, no new pass, no return), and after a failure
\* during init no update pass has ever started.
C6_StorageFailureIsFatal ==
  /\ [](cause = "storage" =>
          /\ pc = "panicked"
          /\ (failed_at \in InitPositions => n_updates = 0))
  /\ [][ cause = "storage" =>
           UNCHANGED << pc, n_updates, conns, state_vars, local_vars >> ]_vars

\* A query of the second update pass failed after a block was replayed.
C6_Witness ==
  /\ cause = "storage"
  /\ failed_at = "ops_get"
  /\ n_updates = 2
  /\ fetched # << >>

\* C7: a stop check that finds the sender dropped and no stop message ever
\* sent aborts run; exit is not set, and run stays aborted (no pass, no
\* return).
C7_DroppedSenderAborts ==
  /\ [][ (pc = "check" /\ pc' # pc /\ sender = "dropped" /\ ~stop_sent) =>
           (pc' = "panicked" /\ cause' = "channel" /\ ~exit') ]_vars
  /\ [](cause = "channel" => pc = "panicked" /\ ~stop_sent)
  /\ [][ cause = "channel" => UNCHANGED << pc, n_updates, state_vars >> ]_vars

C7_Witness ==
  cause = "channel" /\ n_updates >= 1 /\ sender = "dropped" /\ ~stop_sent

\* C8: once a stop message has been sent, run returns unless a storage query
\* fails; run returns only if a stop message was sent; and a tick that ends
\* without the stop message observed is followed by another tick (or an
\* abort).
C8_ReturnsOnceStopped ==
  /\ stop_sent ~> (pc = "returned" \/ cause = "storage")
  /\ [](pc = "returned" => stop_sent)
  /\ (pc = "tick_end" /\ ~exit) ~> (pc = "sleep" \/ pc = "panicked")

C8_Witness ==
  pc = "returned" /\ stop_sent /\ sender = "dropped" /\ cause = "none"

\* C9: when init has completed and when an update pass has completed, the
\* checkpoint's last_block_number is at least circuit_tree_block.
C9_CheckpointNotBehindTree ==
  PassEnded => state_keeper_init.last_block_number >= circuit_tree_block

\* A pass that advanced the tree has completed.
C9_Witness ==
  /\ pc = "tick_end"
  /\ fetched # << >>
  /\ state_keeper_init.last_block_number = circuit_tree_block

\* C10: circuit_tree_block never exceeds the last verified block of storage.
C10_TreeBlockVerified ==
  circuit_tree_block <= verified

\* The tree has been advanced to the block storage holds as last verified.
C10_Witness ==
  /\ pc = "upd_access"
  /\ fetched # << >>
  /\ circuit_tree_block = verified

\* C11: when apply reaches a FullExit operation, the leaves after it are
\* the leaves before it with the target leaf zeroed if the operation carries
\* a withdraw amount, and exactly the leaves before it if it carries none.
C11_FullExitSuccessFlag ==
  pc = "ops_apply" =>
    \A i \in DOMAIN ops :
      ops[i].kind = "FullExit" =>
        LET before == apply(circuit_acc_tree, SubSeq(ops, 1, i - 1))
            after  == apply(circuit_acc_tree, SubSeq(ops, 1, i))
        IN  IF ops[i].withdraw_amount # None
            THEN after = [before EXCEPT ![ops[i].from] = EmptyLeaf]
            ELSE after = before

\* A block with a FullExit that carries no withdraw amount has been
\* replayed, and its target leaf is still a non-empty account.
C11_Witness ==
  /\ pc = "uct_loop"
  /\ replayed # << >>
  /\ LET b == get_block_operations(replayed[Len(replayed)]) IN
       \E i \in DOMAIN b :
         /\ b[i].kind = "FullExit"
         /\ b[i].withdraw_amount = None
         /\ circuit_acc_tree[b[i].from] # EmptyLeaf

\* C12: with the tree loaded at block 10 (account 1 at balance 100) and
\* storage reporting block 12 to the first update pass, that pass leaves
\* leaf 1 at 70, leaf 2 at 80 and circuit_tree_block at 12.
C12_GapScenario ==
  (/\ pc = "upd_access"
   /\ n_updates = 1
   /\ snap.block = 10
   /\ block_number = 12) =>
     /\ circuit_acc_tree[1].balance = 70
     /\ circuit_acc_tree[2].balance = 80
     /\ circuit_tree_block = 12

C12_Witness ==
  /\ pc = "upd_access"
  /\ n_updates = 1
  /\ snap.block = 10
  /\ snap.tree[1].balance = 100
  /\ snap.tree[2] = EmptyLeaf
  /\ fetched = << 11, 12 >>
  /\ circuit_tree_block = 12

\* C13: while run is in its pause between ticks it holds no storage
\* connection.
C13_NoConnectionWhileAsleep ==
  pc = "sleep" => conns = 0

\* The pause after a completed update pass.
C13_Witness ==
  pc = "sleep" /\ n_updates >= 1 /\ conns = 0 /\ cause = "none"

\* C14: the blocks replayed since init are the blocks right after the
\* initial snapshot's, each once and in order (so none twice and none at or
\* below the snapshot's block), and between passes they are all the blocks
\* up to circuit_tree_block.
C14_ReplayedExactlyOnce ==
  /\ replayed = Range(snap.block, snap.block + Len(replayed))
  /\ Settled => Len(replayed) = circuit_tree_block - snap.block

\* Two blocks were replayed, in two different ticks.
C14_Witness ==
  /\ pc = "tick_end"
  /\ n_updates = 2
  /\ Len(replayed) = 2
  /\ Len(fetched) = 1

UpdatePositions == {"uct_access", "uct_last", "ops_access", "ops_get",
                    "upd_access", "upd_diff"}

\* C15 as stated: whenever update has returned, with Ok or with an error,
\* the tree is the initial snapshot plus the replay of exactly the blocks up
\* to circuit_tree_block.
C15_NoPartialStateEvenOnError ==
  (pc = "tick_end" \/ (pc = "panicked" /\ failed_at \in UpdatePositions)) =>
    circuit_acc_tree = SinglePass(snap.tree, snap.block, circuit_tree_block)

\* C15, amended: whenever update has returned Ok, the tree is the initial
\* snapshot plus the replay of exactly the blocks up to circuit_tree_block
\* and the checkpoint is at or past that block; after an error run is
\* aborted, so the state an error leaves behind is never returned.
C15_NoPartialStateAfterOk ==
  /\ PassEnded =>
       /\ circuit_acc_tree =
            SinglePass(snap.tree, snap.block, circuit_tree_block)
       /\ replayed = Range(snap.block, circuit_tree_block)
       /\ state_keeper_init.last_block_number >= circuit_tree_block
  /\ cause # "none" => pc = "panicked"

\* update has returned Ok after replaying a block, and run polls on.
C15_Witness ==
  /\ pc = "check"
  /\ n_updates >= 1
  /\ fetched # << >>
  /\ circuit_tree_block = snap.block + Len(replayed)

\* C16: no update pass starts before init has succeeded; the checkpoint is
\* not restored before the tree is loaded; and once the tree is loaded it
\* holds every account of the verified-state load at its id and
\* circuit_tree_block is the block number of that load.
C16_InitPrecedesPolling ==
  /\ pc \in InitPositions => (n_updates = 0 /\ replayed = << >>)
  /\ failed_at \in InitPositions => n_updates = 0
  /\ pc \in {"ict_access", "ict_load", "ict_insert"} =>
       state_keeper_init = NewStateKeeperInit
  /\ (\/ pc \in {"init_access", "init_restore"}
      \/ (pc \in {"check", "sleep"} /\ n_updates = 0)) =>
       /\ \A a \in AccountIds :
            circuit_acc_tree[a] = CircuitAccountFrom(snap.tree[a])
       /\ circuit_tree_block = snap.block
  /\ (pc \in {"check", "sleep"} /\ n_updates = 0) =>
       state_keeper_init.last_block_number >= snap.block

\* init has succeeded on a ledger whose verified state is past block 0.
C16_Witness ==
  /\ pc = "check"
  /\ n_updates = 0
  /\ snap.block >= 1
  /\ circuit_tree_block = snap.block
  /\ circuit_acc_tree # Genesis
  /\ state_keeper_init.last_block_number >= 1

\* C17 as stated: no connection is held while leaves are inserted or
\* operations replayed, and at most one connection is held at any time.
C17_NoConnectionDuringMutation ==
  /\ pc \in {"ict_insert", "ops_apply"} => conns = 0
  /\ conns <= 1

TreePositions == {"uct_access", "uct_last", "uct_loop", "ops_access",
                  "ops_get", "ops_apply"}

\* C18: the steps of the tree advance (apply included) leave the checkpoint
\* unchanged, the steps of the checkpoint diff leave the tree and
\* circuit_tree_block unchanged, and a Noop met by apply leaves the leaves
\* as they were before it.
C18_TickHalvesIndependent ==
  [][ /\ pc \in TreePositions => state_keeper_init' = state_keeper_init
      /\ pc \in {"upd_access", "upd_diff"} =>
           /\ circuit_acc_tree' = circuit_acc_tree
           /\ circuit_tree_block' = circuit_tree_block
      /\ pc = "ops_apply" =>
           \A i \in DOMAIN ops :
             ops[i].kind = "Noop" =>
               apply(circuit_acc_tree, SubSeq(ops, 1, i)) =
                 apply(circuit_acc_tree, SubSeq(ops, 1, i - 1)) ]_vars

\* A tick has completed in which a block with a Noop was replayed and the
\* checkpoint went past the tree's block.
C18_Witness ==
  /\ pc = "tick_end"
  /\ fetched # << >>
  /\ state_keeper_init.last_block_number > circuit_tree_block
  /\ \E k \in DOMAIN fetched :
       LET b == get_block_operations(fetched[k]) IN
         \E i \in DOMAIN b : b[i].kind = "Noop"

\* C19: at most two update passes start after the first stop message is
\* sent, and when run returns at least one has (so run never returns
\* without an update pass after init).
C19_UpdatesAfterStop ==
  /\ n_after_sent <= 2
  /\ pc = "returned" => (n_after_sent >= 1 /\ n_updates >= 1)

\* The stop message was sent during the pause: the pass of that tick and
\* the pass after the next check both ran before run returned.
C19_Witness ==
  pc = "returned" /\ n_after_sent = 2

\* C20: a stop check that finds a message in the channel receives it and
\* sets exit, also when the sender is already dropped; once a stop message
\* has been sent the channel never aborts run; and run returns after one
\* pass following such a check.
C20_SentBeforeDropHonoured ==
  /\ [][ (pc = "check" /\ pc' # pc /\ chan > 0) =>
           (pc' = "sleep" /\ exit' /\ chan' = chan - 1) ]_vars
  /\ [](stop_sent => cause # "channel")
  /\ [](recv_after_drop => (exit /\ pc # "check"))
  /\ []((pc = "returned" /\ recv_after_drop) => n_after_obs = 1)

\* run has returned after receiving the stop message of a dropped sender.
C20_Witness ==
  pc = "returned" /\ recv_after_drop /\ cause = "none"

====
